---- MODULE Spec2Model ----
(***************************************************************************)
(* Model of astrbot_plugin_rate_limit (main.py): the sliding-window rate   *)
(* limiter RateLimitPlugin, its LLM-request hook and its /rl commands.     *)
(*                                                                         *)
(* Strings are sequences of one-character strings, so that the persisted   *)
(* "id:count" entries are parsed and formatted as the code does it.        *)
(* Timestamps are whole seconds; a cooldown is reported in tenths of a     *)
(* second (the code rounds it to one decimal place).                       *)
(***************************************************************************)
EXTENDS Integers, Sequences, FiniteSets, TLC

(***************************************************************************)
(* Bounds of the model.                                                    *)
(***************************************************************************)
\* the clock runs over 0..MaxTime
MaxTime == 3
\* at most MaxLog LLM requests are handled in one behaviour of SpecFixed
MaxLog == 3
\* at most MaxReq LLM requests are handled in one behaviour of Spec
MaxReq == 2
\* at most MaxAdmin /rl commands are handled in one behaviour
MaxAdmin == 1
\* counts given to the /rl setters range over 0..MaxCount
MaxCount == 2

\* identifiers seen in events and given to commands
Actors == {<<"a">>, <<"b">>}
GroupIds == {<<"g">>, <<"h">>}
\* get_group_id() of a private message: the empty string, falsy in Python
NoGroup == <<>>
EventGroups == GroupIds \cup {NoGroup}
Tasks == {"t1", "t2"}

(***************************************************************************)
(* Strings.                                                                *)
(***************************************************************************)
Digits == <<"0", "1", "2", "3", "4", "5", "6", "7", "8", "9">>

IsDigit(c) == \E i \in DOMAIN Digits : Digits[i] = c

DigitVal(c) == (CHOOSE i \in DOMAIN Digits : Digits[i] = c) - 1

RECURSIVE LStrip(_)
LStrip(s) == IF s # <<>> /\ Head(s) = " " THEN LStrip(Tail(s)) ELSE s

RECURSIVE RStrip(_)
RStrip(s) ==
    IF s # <<>> /\ s[Len(s)] = " " THEN RStrip(SubSeq(s, 1, Len(s) - 1)) ELSE s

\* str.strip()
Strip(s) == RStrip(LStrip(s))

\* ":" in entry
HasColon(s) == \E i \in DOMAIN s : s[i] = ":"

\* a split at the last ":" of the entry
SplitColon_last(s) ==
    LET i == CHOOSE k \in DOMAIN s : s[k] = ":" /\ \A j \in (k + 1)..Len(s) : s[j] # ":"
    IN  <<SubSeq(s, 1, i - 1), SubSeq(s, i + 1, Len(s))>>

\* entry.split(":", 1): the text before and after the first ":"
SplitColon(s) ==
    LET i == CHOOSE k \in DOMAIN s : s[k] = ":" /\ \A j \in 1..(k - 1) : s[j] # ":"
    IN  <<SubSeq(s, 1, i - 1), SubSeq(s, i + 1, Len(s))>>

RECURSIVE DigitsVal(_)
DigitsVal(s) ==
    IF s = <<>> THEN 0 ELSE 10 * DigitsVal(SubSeq(s, 1, Len(s) - 1)) + DigitVal(s[Len(s)])

AllDigits(s) == s # <<>> /\ \A i \in DOMAIN s : IsDigit(s[i])

\* int(text): an optional sign and decimal digits around which blanks are
\* ignored; ok = FALSE stands for ValueError
ParseInt(text) ==
    LET s == Strip(text)
        signed == s # <<>> /\ Head(s) \in {"-", "+"}
        body == IF signed THEN Tail(s) ELSE s
    IN  IF AllDigits(body)
        THEN [ok |-> TRUE,
              val |-> IF signed /\ Head(s) = "-" THEN 0 - DigitsVal(body) ELSE DigitsVal(body)]
        ELSE [ok |-> FALSE, val |-> 0]

RECURSIVE NatToStr(_)
NatToStr(n) ==
    IF n < 10 THEN <<Digits[n + 1]>> ELSE NatToStr(n \div 10) \o <<Digits[(n % 10) + 1]>>

\* f"{v}" of an int
IntToStr(v) == IF v < 0 THEN <<"-">> \o NatToStr(0 - v) ELSE NatToStr(v)

(***************************************************************************)
(* Python dicts: insertion-ordered sequences of <<key, value>> pairs with  *)
(* distinct keys.                                                          *)
(***************************************************************************)
Has(d, k) == \E i \in DOMAIN d : d[i][1] = k

Get(d, k) == d[CHOOSE i \in DOMAIN d : d[i][1] = k][2]

\* d[k] = v
Put(d, k, v) ==
    IF Has(d, k)
    THEN [i \in DOMAIN d |-> IF d[i][1] = k THEN <<k, v>> ELSE d[i]]
    ELSE Append(d, <<k, v>>)

\* del d[k]
Del(d, k) == SelectSeq(d, LAMBDA e : e[1] # k)

RECURSIVE _parse_limit_list(_)
_parse_limit_list(raw) ==
    IF raw = <<>> THEN <<>>
    ELSE LET result == _parse_limit_list(SubSeq(raw, 1, Len(raw) - 1))
             entry == Strip(raw[Len(raw)])
         IN  IF ~HasColon(entry) THEN result
             ELSE LET parts == SplitColon(entry)
                      n == ParseInt(Strip(parts[2]))
                  IN  IF n.ok THEN Put(result, Strip(parts[1]), n.val) ELSE result

_dump_limit_dict(d) == [i \in DOMAIN d |-> d[i][1] \o <<":">> \o IntToStr(d[i][2])]

(***************************************************************************)
(* State.                                                                  *)
(***************************************************************************)
VARIABLES
    config,                    \* the persisted AstrBotConfig (self.config)
    enable_user_limit,
    enable_group_total_limit,
    max_requests,
    time_window,
    default_group_total,
    whitelist,                 \* a list; the same object as config["whitelist"]
    group_limits,              \* dict group id -> per-user cap
    group_total_limits,        \* dict group id -> aggregate cap
    user_limits,               \* dict user id -> cap
    _request_records,          \* user id -> deque of timestamps (absent = empty)
    _group_records,            \* group id -> deque of timestamps (absent = empty)
    clock,                     \* what time.time() returns
    pc,                        \* where each on_llm_request task stands
    last,                      \* outcome of the handler that ran last
    log,                       \* history: the outcomes of the LLM requests so far
    nreq,                      \* history: number of LLM requests handled so far
    nadmin                     \* history: number of /rl commands handled so far

cfgvars == <<enable_user_limit, enable_group_total_limit, max_requests, time_window,
             default_group_total, whitelist, group_limits, group_total_limits,
             user_limits>>

vars == <<config, enable_user_limit, enable_group_total_limit, max_requests,
          time_window, default_group_total, whitelist, group_limits,
          group_total_limits, user_limits, _request_records, _group_records,
          clock, pc, last, log, nreq, nadmin>>

(***************************************************************************)
(* Core logic (main.py 73-109).                                            *)
(***************************************************************************)
\* Python truthiness of a string
Truthy(s) == s # <<>>

\* the resolution with the group tier tried before the per-actor tier
_resolve_max_requests_group_first(user_id, group_id) ==
    IF Truthy(group_id) /\ Has(group_limits, group_id) THEN Get(group_limits, group_id)
    ELSE IF Has(user_limits, user_id) THEN Get(user_limits, user_id)
    ELSE max_requests

_resolve_max_requests(user_id, group_id) ==
    IF Has(user_limits, user_id) THEN Get(user_limits, user_id)
    ELSE IF Truthy(group_id) /\ Has(group_limits, group_id) THEN Get(group_limits, group_id)
    ELSE max_requests

\* the resolution without the per-group tier
_resolve_group_total_default_only(group_id) == default_group_total

_resolve_group_total(group_id) ==
    IF Has(group_total_limits, group_id) THEN Get(group_total_limits, group_id)
    ELSE default_group_total

\* the pruning with the comparison records[0] < window_start in place of <=
RECURSIVE PopExpired_lt(_, _)
PopExpired_lt(records, window_start) ==
    IF records # <<>> /\ Head(records) < window_start
    THEN PopExpired_lt(Tail(records), window_start)
    ELSE records

\* while records and records[0] <= window_start: records.popleft()
RECURSIVE PopExpired(_, _)
PopExpired(records, window_start) ==
    IF records # <<>> /\ Head(records) <= window_start
    THEN PopExpired(Tail(records), window_start)
    ELSE records

\* round(cooldown, 1) of a whole number of seconds, in tenths of a second
Round1(seconds) == 10 * seconds

\* the check with the comparison len(records) > max_req in place of >=
_sliding_window_check_gt(records, max_req, window, now) ==
    LET window_start == now - window
        left == PopExpired(records, window_start)
    IN  IF Len(left) > max_req
        THEN [allowed |-> FALSE, cooldown |-> Round1(Head(left) - window_start),
              records |-> left, error |-> FALSE]
        ELSE [allowed |-> TRUE, cooldown |-> 0, records |-> left, error |-> FALSE]

\* the check with the cooldown taken from the oldest timestamp the deque held
\* before it was pruned
_sliding_window_check_stale_head(records, max_req, window, now) ==
    LET window_start == now - window
        left == PopExpired(records, window_start)
    IN  IF Len(left) >= max_req
        THEN IF left = <<>>
             THEN [allowed |-> FALSE, cooldown |-> 0, records |-> left, error |-> TRUE]
             ELSE [allowed |-> FALSE, cooldown |-> Round1(Head(records) - window_start),
                   records |-> left, error |-> FALSE]
        ELSE [allowed |-> TRUE, cooldown |-> 0, records |-> left, error |-> FALSE]

\* the check that counts a denied request: it appends now before it denies
_sliding_window_check_penalty(records, max_req, window, now) ==
    LET window_start == now - window
        left == PopExpired(records, window_start)
    IN  IF Len(left) >= max_req
        THEN IF left = <<>>
             THEN [allowed |-> FALSE, cooldown |-> 0, records |-> left, error |-> TRUE]
             ELSE [allowed |-> FALSE, cooldown |-> Round1(Head(left) - window_start),
                   records |-> Append(left, now), error |-> FALSE]
        ELSE [allowed |-> TRUE, cooldown |-> 0, records |-> left, error |-> FALSE]

\* The deque is pruned in place: records is what is left of it.  error stands
\* for the IndexError of records[0] on an empty deque.
_sliding_window_check(records, max_req, window, now) ==
    LET window_start == now - window
        left == PopExpired(records, window_start)
    IN  IF Len(left) >= max_req
        THEN IF left = <<>>
             THEN [allowed |-> FALSE, cooldown |-> 0, records |-> left, error |-> TRUE]
             ELSE [allowed |-> FALSE, cooldown |-> Round1(Head(left) - window_start),
                   records |-> left, error |-> FALSE]
        ELSE [allowed |-> TRUE, cooldown |-> 0, records |-> left, error |-> FALSE]

\* a record step that puts the timestamp in front (appendleft)
_sliding_window_record_front(records, now) == <<now>> \o records

\* a record step whose append is lost
_sliding_window_record_lost(records, now) == records

_sliding_window_record(records, now) == Append(records, now)

(***************************************************************************)
(* _reload_config and _save_limits (main.py 44-69).  Every key is present  *)
(* in the store (AstrBotConfig is filled from the plugin's schema).        *)
(***************************************************************************)
Config(eul, egl, mr, tw, dgt, wl, gl, gtl, ul) ==
    [enable_user_limit |-> eul, enable_group_total_limit |-> egl, max_requests |-> mr,
     time_window_seconds |-> tw, default_group_total |-> dgt, whitelist |-> wl,
     group_limits |-> gl, group_total_limits |-> gtl, user_limits |-> ul]

\* what _reload_config assigns, read from the store c
Loaded(c) ==
    /\ enable_user_limit' = c.enable_user_limit
    /\ enable_group_total_limit' = c.enable_group_total_limit
    /\ max_requests' = c.max_requests
    /\ time_window' = c.time_window_seconds
    /\ default_group_total' = c.default_group_total
    /\ whitelist' = c.whitelist
    /\ group_limits' = _parse_limit_list(c.group_limits)
    /\ group_total_limits' = _parse_limit_list(c.group_total_limits)
    /\ user_limits' = _parse_limit_list(c.user_limits)

_reload_config == Loaded(config)

\* the store after _save_limits, the three dicts being gl, gtl and ul
_save_limits(gl, gtl, ul) ==
    [config EXCEPT !.group_limits = _dump_limit_dict(gl),
                   !.group_total_limits = _dump_limit_dict(gtl),
                   !.user_limits = _dump_limit_dict(ul)]

(***************************************************************************)
(* on_llm_request (main.py 113-168).  A task runs from its start to its    *)
(* first await or to its return in one step; the only awaits are the two   *)
(* event.send of a denial.                                                 *)
(***************************************************************************)
\* a membership test that looks at the first entry of the list only
InList_head_only(x, list) == list # <<>> /\ list[1] = x

\* user_id in self.whitelist
InList(x, list) == \E i \in DOMAIN list : list[i] = x

\* group_max without the test of enable_group_total_limit
GroupMax_no_toggle(group_id) ==
    IF Truthy(group_id) THEN _resolve_group_total(group_id) ELSE 0

\* group_max (main.py 148-150)
GroupMax(group_id) ==
    IF enable_group_total_limit /\ Truthy(group_id)
    THEN _resolve_group_total(group_id) ELSE 0

\* on_llm_request with its steps in another order: with recordEarly the user
\* record is appended as soon as the user-level check passes, with groupFirst
\* the aggregate check prunes its deque before the user-level check returns
AdmitReordered(user_id, group_id, now, recordEarly, groupFirst) ==
    LET urec0 == _request_records[user_id]
        grec0 == IF group_id \in DOMAIN _group_records THEN _group_records[group_id] ELSE <<>>
        max_req == _resolve_max_requests(user_id, group_id)
        u == _sliding_window_check(urec0, max_req, time_window, now)
        urec1 == IF enable_user_limit THEN u.records ELSE urec0
        group_max == GroupMax(group_id)
        gstage == Truthy(group_id) /\ group_max > 0
        g == _sliding_window_check(grec0, group_max, time_window, now)
        grec1 == IF groupFirst /\ gstage THEN g.records ELSE grec0
        out(reason, cooldown, us, gs, ur, gr) ==
            [reason |-> reason, cooldown |-> cooldown, ustage |-> us, gstage |-> gs,
             max |-> IF us THEN max_req ELSE 0, gmax |-> IF gs THEN group_max ELSE 0,
             urec |-> ur, grec |-> gr]
    IN  IF InList(user_id, whitelist)
        THEN out("whitelist", 0, FALSE, FALSE, urec0, grec0)
        ELSE IF enable_user_limit /\ u.error
        THEN out("error", 0, TRUE, FALSE, urec1, grec1)
        ELSE IF enable_user_limit /\ ~u.allowed
        THEN out("user_limit", u.cooldown, TRUE, FALSE, urec1, grec1)
        ELSE IF gstage /\ g.error
        THEN out("error", 0, enable_user_limit, TRUE, urec1, g.records)
        ELSE IF gstage /\ ~g.allowed
        THEN out("group_total", g.cooldown, enable_user_limit, TRUE,
                 IF recordEarly /\ enable_user_limit
                 THEN _sliding_window_record(urec1, now) ELSE urec1,
                 g.records)
        ELSE out("ok", 0, enable_user_limit, gstage,
                 IF enable_user_limit THEN _sliding_window_record(urec1, now) ELSE urec1,
                 IF gstage THEN _sliding_window_record(g.records, now) ELSE grec0)

Admit_record_early(user_id, group_id, now) ==
    AdmitReordered(user_id, group_id, now, TRUE, FALSE)

Admit_group_first(user_id, group_id, now) ==
    AdmitReordered(user_id, group_id, now, FALSE, TRUE)

\* on_llm_request with the aggregate check decided before the user-level check
Admit_group_check_first(user_id, group_id, now) ==
    LET urec0 == _request_records[user_id]
        grec0 == IF group_id \in DOMAIN _group_records THEN _group_records[group_id] ELSE <<>>
        max_req == _resolve_max_requests(user_id, group_id)
        u == _sliding_window_check(urec0, max_req, time_window, now)
        group_max == GroupMax(group_id)
        gstage == Truthy(group_id) /\ group_max > 0
        g == _sliding_window_check(grec0, group_max, time_window, now)
        grec1 == IF gstage THEN g.records ELSE grec0
        urec1 == IF enable_user_limit THEN u.records ELSE urec0
        out(reason, cooldown, us, gs, ur, gr) ==
            [reason |-> reason, cooldown |-> cooldown, ustage |-> us, gstage |-> gs,
             max |-> IF us THEN max_req ELSE 0, gmax |-> IF gs THEN group_max ELSE 0,
             urec |-> ur, grec |-> gr]
    IN  IF InList(user_id, whitelist)
        THEN out("whitelist", 0, FALSE, FALSE, urec0, grec0)
        ELSE IF gstage /\ g.error
        THEN out("error", 0, FALSE, TRUE, urec0, grec1)
        ELSE IF gstage /\ ~g.allowed
        THEN out("group_total", g.cooldown, FALSE, TRUE, urec0, grec1)
        ELSE IF enable_user_limit /\ u.error
        THEN out("error", 0, TRUE, gstage, urec1, grec1)
        ELSE IF enable_user_limit /\ ~u.allowed
        THEN out("user_limit", u.cooldown, TRUE, gstage, urec1, grec1)
        ELSE out("ok", 0, enable_user_limit, gstage,
                 IF enable_user_limit THEN _sliding_window_record(urec1, now) ELSE urec1,
                 IF gstage THEN _sliding_window_record(grec1, now) ELSE grec0)

\* What one call decides at time now and what it leaves in the two deques it
\* may touch: urec is _request_records[user_id], grec is _group_records[group_id].
Admit(user_id, group_id, now) ==
    LET urec0 == _request_records[user_id]
        grec0 == IF group_id \in DOMAIN _group_records THEN _group_records[group_id] ELSE <<>>
        max_req == _resolve_max_requests(user_id, group_id)
        u == _sliding_window_check(urec0, max_req, time_window, now)
        urec1 == IF enable_user_limit THEN u.records ELSE urec0
        group_max == GroupMax(group_id)
        gstage == Truthy(group_id) /\ group_max > 0
        g == _sliding_window_check(grec0, group_max, time_window, now)
        out(reason, cooldown, us, gs, ur, gr) ==
            [reason |-> reason, cooldown |-> cooldown, ustage |-> us, gstage |-> gs,
             max |-> IF us THEN max_req ELSE 0, gmax |-> IF gs THEN group_max ELSE 0,
             urec |-> ur, grec |-> gr]
    IN  IF InList(user_id, whitelist)
        THEN out("whitelist", 0, FALSE, FALSE, urec0, grec0)
        ELSE IF enable_user_limit /\ u.error
        THEN out("error", 0, TRUE, FALSE, urec1, grec0)
        ELSE IF enable_user_limit /\ ~u.allowed
        THEN out("user_limit", u.cooldown, TRUE, FALSE, urec1, grec0)
        ELSE IF gstage /\ g.error
        THEN out("error", 0, enable_user_limit, TRUE, urec1, g.records)
        ELSE IF gstage /\ ~g.allowed
        THEN out("group_total", g.cooldown, enable_user_limit, TRUE, urec1, g.records)
        ELSE out("ok", 0, enable_user_limit, gstage,
                 IF enable_user_limit THEN _sliding_window_record(urec1, now) ELSE urec1,
                 IF gstage THEN _sliding_window_record(g.records, now) ELSE grec0)

Decision(user_id, group_id, now, d) ==
    [op |-> "on_llm_request", id |-> user_id, group |-> group_id, now |-> now,
     reason |-> d.reason, cooldown |-> d.cooldown, ustage |-> d.ustage,
     gstage |-> d.gstage, max |-> d.max, gmax |-> d.gmax]

NoDecision ==
    [op |-> "none", id |-> <<>>, group |-> NoGroup, now |-> 0, reason |-> "none",
     cooldown |-> 0, ustage |-> FALSE, gstage |-> FALSE, max |-> 0, gmax |-> 0]

\* the hook with one deque shared by all users and one shared by all groups
on_llm_request_shared(t, user_id, group_id) ==
    /\ pc[t] = "idle"
    /\ LET now == clock
           d == Admit(user_id, group_id, now)
       IN  /\ _request_records' = [a \in DOMAIN _request_records |-> d.urec]
           /\ _group_records' = IF group_id \in DOMAIN _group_records
                                THEN [g \in DOMAIN _group_records |-> d.grec]
                                ELSE _group_records
           /\ pc' = IF d.reason \in {"user_limit", "group_total"}
                    THEN [pc EXCEPT ![t] = "send"] ELSE pc
           /\ last' = Decision(user_id, group_id, now, d)
    /\ UNCHANGED <<config, cfgvars, clock, nadmin>>

on_llm_request(t, user_id, group_id) ==
    /\ pc[t] = "idle"
    /\ LET now == clock
           d == Admit(user_id, group_id, now)
       IN  /\ _request_records' = [_request_records EXCEPT ![user_id] = d.urec]
           /\ _group_records' = IF group_id \in DOMAIN _group_records
                                THEN [_group_records EXCEPT ![group_id] = d.grec]
                                ELSE _group_records
           /\ pc' = IF d.reason \in {"user_limit", "group_total"}
                    THEN [pc EXCEPT ![t] = "send"] ELSE pc
           /\ last' = Decision(user_id, group_id, now, d)
    /\ UNCHANGED <<config, cfgvars, clock, nadmin>>

\* at most MaxReq requests are handled, and counted
Counted ==
    /\ nreq < MaxReq
    /\ nreq' = nreq + 1
    /\ UNCHANGED log

\* at most MaxLog requests are handled, and their outcomes kept
Logged ==
    /\ nreq < MaxLog
    /\ nreq' = nreq + 1
    /\ log' = Append(log, last')

\* a task that records its request when event.send returns
send_done_records(t) ==
    /\ pc[t] = "send"
    /\ pc' = [pc EXCEPT ![t] = "idle"]
    /\ _request_records' = [a \in DOMAIN _request_records |->
                               Append(_request_records[a], clock)]
    /\ UNCHANGED <<config, cfgvars, _group_records, clock, last, log, nreq, nadmin>>

\* event.send returns; event.stop_event(); return
send_done(t) ==
    /\ pc[t] = "send"
    /\ pc' = [pc EXCEPT ![t] = "idle"]
    /\ UNCHANGED <<config, cfgvars, _request_records, _group_records, clock, last, log,
                   nreq, nadmin>>

\* time passes
Tick ==
    /\ clock < MaxTime
    /\ clock' = clock + 1
    /\ UNCHANGED <<config, cfgvars, _request_records, _group_records, pc, last, log,
                   nreq, nadmin>>

(***************************************************************************)
(* Construction (main.py 34-42) over a set of stored configurations.       *)
(***************************************************************************)
Str(id, n) == id \o <<":">> \o IntToStr(n)

InitWith(configs) ==
    /\ config \in configs
    /\ enable_user_limit = config.enable_user_limit
    /\ enable_group_total_limit = config.enable_group_total_limit
    /\ max_requests = config.max_requests
    /\ time_window = config.time_window_seconds
    /\ default_group_total = config.default_group_total
    /\ whitelist = config.whitelist
    /\ group_limits = _parse_limit_list(config.group_limits)
    /\ group_total_limits = _parse_limit_list(config.group_total_limits)
    /\ user_limits = _parse_limit_list(config.user_limits)
    /\ _request_records = [a \in Actors |-> <<>>]
    /\ _group_records = [g \in GroupIds |-> <<>>]
    /\ clock = 0
    /\ pc = [t \in Tasks |-> "idle"]
    /\ last = NoDecision
    /\ log = <<>>
    /\ nreq = 0
    /\ nadmin = 0

\* The stored configurations of the runs without /rl commands: group g has a
\* per-user cap and an aggregate cap of its own, group h has neither.
FixedConfigs ==
    {Config(eul, egl, 1, 2, dgt, wl, <<Str(<<"g">>, 2)>>, <<Str(<<"g">>, 2)>>, ul) :
        eul \in BOOLEAN, egl \in BOOLEAN, dgt \in {0, 1},
        wl \in {<<>>, << <<"b">> >>},
        ul \in {<<>>, <<Str(<<"a">>, 1)>>}}

InitFixed == InitWith(FixedConfigs)

NextFixed ==
    \/ Tick
    \/ \E t \in Tasks, a \in Actors, g \in EventGroups :
          on_llm_request(t, a, g) /\ Logged
    \/ \E t \in Tasks : send_done(t)

\* the plugin under a configuration that no command changes
SpecFixed == InitFixed /\ [][NextFixed]_vars

(***************************************************************************)
(* The /rl commands (main.py 176-398).  Each runs to its yield in one      *)
(* step: no command awaits before it has changed what it changes.          *)
(***************************************************************************)
Reply(op, id, count, reason) ==
    [NoDecision EXCEPT !.op = op, !.id = id, !.max = count, !.reason = reason]

Admin(op, id, count, reason) ==
    /\ nadmin < MaxAdmin
    /\ nadmin' = nadmin + 1
    /\ last' = Reply(op, id, count, reason)
    /\ UNCHANGED <<clock, pc, log, nreq>>

\* dict.pop(key, None) on a records table
Pop(table, key) == IF key \in DOMAIN table THEN [table EXCEPT ![key] = <<>>] ELSE table

\* dict.clear() on a records table
Clear(table) == [k \in DOMAIN table |-> <<>>]

\* list.remove(x): drops the first occurrence
RemoveFirst(list, x) ==
    LET i == CHOOSE k \in DOMAIN list : list[k] = x /\ \A j \in 1..(k - 1) : list[j] # x
    IN  SubSeq(list, 1, i - 1) \o SubSeq(list, i + 1, Len(list))

\* rl_status, wl_list, group_list, gtotal_list and user_list reload the
\* configuration and print it
Listing(op) ==
    /\ Admin(op, <<>>, 0, "ok")
    /\ _reload_config
    /\ UNCHANGED <<config, _request_records, _group_records>>

rl_status == Listing("rl_status")

rl_whitelist_list == Listing("rl_whitelist_list")

rl_group_list == Listing("rl_group_list")

rl_gtotal_list == Listing("rl_gtotal_list")

rl_user_list == Listing("rl_user_list")

rl_whitelist_add(user_id) ==
    IF InList(user_id, whitelist)
    THEN /\ Admin("rl_whitelist_add", user_id, 0, "noop")
         /\ UNCHANGED <<config, cfgvars, _request_records, _group_records>>
    ELSE /\ Admin("rl_whitelist_add", user_id, 0, "ok")
         /\ whitelist' = Append(whitelist, user_id)
         /\ config' = [config EXCEPT !.whitelist = whitelist']
         /\ UNCHANGED <<enable_user_limit, enable_group_total_limit, max_requests,
                        time_window, default_group_total, group_limits,
                        group_total_limits, user_limits, _request_records,
                        _group_records>>

rl_whitelist_remove(user_id) ==
    IF ~InList(user_id, whitelist)
    THEN /\ Admin("rl_whitelist_remove", user_id, 0, "noop")
         /\ UNCHANGED <<config, cfgvars, _request_records, _group_records>>
    ELSE /\ Admin("rl_whitelist_remove", user_id, 0, "ok")
         /\ whitelist' = RemoveFirst(whitelist, user_id)
         /\ config' = [config EXCEPT !.whitelist = whitelist']
         /\ _request_records' = Pop(_request_records, user_id)
         /\ UNCHANGED <<enable_user_limit, enable_group_total_limit, max_requests,
                        time_window, default_group_total, group_limits,
                        group_total_limits, user_limits, _group_records>>

rl_set_rate(count) ==
    IF count < 1
    THEN /\ Admin("rl_set_rate", <<>>, count, "rejected")
         /\ UNCHANGED <<config, cfgvars, _request_records, _group_records>>
    ELSE /\ Admin("rl_set_rate", <<>>, count, "ok")
         /\ max_requests' = count
         /\ config' = [config EXCEPT !.max_requests = count]
         /\ UNCHANGED <<enable_user_limit, enable_group_total_limit, time_window,
                        default_group_total, whitelist, group_limits,
                        group_total_limits, user_limits, _request_records,
                        _group_records>>

rl_set_window(seconds) ==
    IF seconds < 1
    THEN /\ Admin("rl_set_window", <<>>, seconds, "rejected")
         /\ UNCHANGED <<config, cfgvars, _request_records, _group_records>>
    ELSE /\ Admin("rl_set_window", <<>>, seconds, "ok")
         /\ time_window' = seconds
         /\ config' = [config EXCEPT !.time_window_seconds = seconds]
         /\ _request_records' = Clear(_request_records)
         /\ _group_records' = Clear(_group_records)
         /\ UNCHANGED <<enable_user_limit, enable_group_total_limit, max_requests,
                        default_group_total, whitelist, group_limits,
                        group_total_limits, user_limits>>

rl_group_set(group_id, count) ==
    IF count < 1
    THEN /\ Admin("rl_group_set", group_id, count, "rejected")
         /\ UNCHANGED <<config, cfgvars, _request_records, _group_records>>
    ELSE /\ Admin("rl_group_set", group_id, count, "ok")
         /\ group_limits' = Put(group_limits, group_id, count)
         /\ config' = _save_limits(group_limits', group_total_limits, user_limits)
         /\ UNCHANGED <<enable_user_limit, enable_group_total_limit, max_requests,
                        time_window, default_group_total, whitelist,
                        group_total_limits, user_limits, _request_records,
                        _group_records>>

rl_group_del(group_id) ==
    IF ~Has(group_limits, group_id)
    THEN /\ Admin("rl_group_del", group_id, 0, "noop")
         /\ UNCHANGED <<config, cfgvars, _request_records, _group_records>>
    ELSE /\ Admin("rl_group_del", group_id, 0, "ok")
         /\ group_limits' = Del(group_limits, group_id)
         /\ config' = _save_limits(group_limits', group_total_limits, user_limits)
         /\ UNCHANGED <<enable_user_limit, enable_group_total_limit, max_requests,
                        time_window, default_group_total, whitelist,
                        group_total_limits, user_limits, _request_records,
                        _group_records>>

\* gtotal_set with the test count < 0 in place of count < 1
rl_gtotal_set_allows_zero(group_id, count) ==
    IF count < 0
    THEN /\ Admin("rl_gtotal_set", group_id, count, "rejected")
         /\ UNCHANGED <<config, cfgvars, _request_records, _group_records>>
    ELSE /\ Admin("rl_gtotal_set", group_id, count, "ok")
         /\ group_total_limits' = Put(group_total_limits, group_id, count)
         /\ config' = _save_limits(group_limits, group_total_limits', user_limits)
         /\ UNCHANGED <<enable_user_limit, enable_group_total_limit, max_requests,
                        time_window, default_group_total, whitelist, group_limits,
                        user_limits, _request_records, _group_records>>

rl_gtotal_set(group_id, count) ==
    IF count < 1
    THEN /\ Admin("rl_gtotal_set", group_id, count, "rejected")
         /\ UNCHANGED <<config, cfgvars, _request_records, _group_records>>
    ELSE /\ Admin("rl_gtotal_set", group_id, count, "ok")
         /\ group_total_limits' = Put(group_total_limits, group_id, count)
         /\ config' = _save_limits(group_limits, group_total_limits', user_limits)
         /\ UNCHANGED <<enable_user_limit, enable_group_total_limit, max_requests,
                        time_window, default_group_total, whitelist, group_limits,
                        user_limits, _request_records, _group_records>>

rl_gtotal_del(group_id) ==
    IF ~Has(group_total_limits, group_id)
    THEN /\ Admin("rl_gtotal_del", group_id, 0, "noop")
         /\ UNCHANGED <<config, cfgvars, _request_records, _group_records>>
    ELSE /\ Admin("rl_gtotal_del", group_id, 0, "ok")
         /\ group_total_limits' = Del(group_total_limits, group_id)
         /\ config' = _save_limits(group_limits, group_total_limits', user_limits)
         /\ _group_records' = Pop(_group_records, group_id)
         /\ UNCHANGED <<enable_user_limit, enable_group_total_limit, max_requests,
                        time_window, default_group_total, whitelist, group_limits,
                        user_limits, _request_records>>

\* user_set without the pop of the user's deque
rl_user_set_keeps_history(user_id, count) ==
    IF count < 1
    THEN /\ Admin("rl_user_set", user_id, count, "rejected")
         /\ UNCHANGED <<config, cfgvars, _request_records, _group_records>>
    ELSE /\ Admin("rl_user_set", user_id, count, "ok")
         /\ user_limits' = Put(user_limits, user_id, count)
         /\ config' = _save_limits(group_limits, group_total_limits, user_limits')
         /\ UNCHANGED <<enable_user_limit, enable_group_total_limit, max_requests,
                        time_window, default_group_total, whitelist, group_limits,
                        group_total_limits, _request_records, _group_records>>

rl_user_set(user_id, count) ==
    IF count < 1
    THEN /\ Admin("rl_user_set", user_id, count, "rejected")
         /\ UNCHANGED <<config, cfgvars, _request_records, _group_records>>
    ELSE /\ Admin("rl_user_set", user_id, count, "ok")
         /\ user_limits' = Put(user_limits, user_id, count)
         /\ config' = _save_limits(group_limits, group_total_limits, user_limits')
         /\ _request_records' = Pop(_request_records, user_id)
         /\ UNCHANGED <<enable_user_limit, enable_group_total_limit, max_requests,
                        time_window, default_group_total, whitelist, group_limits,
                        group_total_limits, _group_records>>

rl_user_del(user_id) ==
    IF ~Has(user_limits, user_id)
    THEN /\ Admin("rl_user_del", user_id, 0, "noop")
         /\ UNCHANGED <<config, cfgvars, _request_records, _group_records>>
    ELSE /\ Admin("rl_user_del", user_id, 0, "ok")
         /\ user_limits' = Del(user_limits, user_id)
         /\ config' = _save_limits(group_limits, group_total_limits, user_limits')
         /\ UNCHANGED <<enable_user_limit, enable_group_total_limit, max_requests,
                        time_window, default_group_total, whitelist, group_limits,
                        group_total_limits, _request_records, _group_records>>

(***************************************************************************)
(* The plugin with its commands.                                           *)
(***************************************************************************)
Counts == 0..MaxCount

\* The stored configurations the plugin is constructed over: no limits at all,
\* or a per-actor limit for a, a per-user limit and an aggregate cap for group g,
\* and a stored aggregate cap of 0 for group h.
StartConfigs ==
    {Config(eul, egl, 1, 2, dgt, wl, lim[1], lim[2], lim[3]) :
        eul \in BOOLEAN, egl \in BOOLEAN, dgt \in {0, 1},
        wl \in {<<>>, << <<"b">> >>},
        lim \in {<< <<>>, <<>>, <<>> >>,
                 << <<Str(<<"g">>, 3)>>, <<Str(<<"g">>, 1), Str(<<"h">>, 0)>>,
                    <<Str(<<"a">>, 2)>> >>}}

Init == InitWith(StartConfigs)

Next ==
    \/ Tick
    \/ \E t \in Tasks, a \in Actors, g \in EventGroups :
          on_llm_request(t, a, g) /\ Counted
    \/ \E t \in Tasks : send_done(t)
    \/ rl_status
    \/ rl_whitelist_list
    \/ rl_group_list
    \/ rl_gtotal_list
    \/ rl_user_list
    \/ \E a \in Actors : rl_whitelist_add(a)
    \/ \E a \in Actors : rl_whitelist_remove(a)
    \/ \E n \in Counts : rl_set_rate(n)
    \/ \E n \in Counts : rl_set_window(n)
    \/ \E g \in GroupIds, n \in Counts : rl_group_set(g, n)
    \/ \E g \in GroupIds : rl_group_del(g)
    \/ \E g \in GroupIds, n \in Counts : rl_gtotal_set(g, n)
    \/ \E g \in GroupIds : rl_gtotal_del(g)
    \/ \E a \in Actors, n \in Counts : rl_user_set(a, n)
    \/ \E a \in Actors : rl_user_del(a)

Spec == Init /\ [][Next]_vars

(***************************************************************************)
(* The plugin over a store it does not own.  self.config is the host's     *)
(* AstrBotConfig object (main.py 36): its lists are edited outside the     *)
(* plugin, so they may hold any integer count, and the host may write a    *)
(* key between two commands; _reload_config reads whatever is there.       *)
(***************************************************************************)
\* the host writes time_window_seconds in the store
config_edited(seconds) ==
    /\ config.time_window_seconds # seconds
    /\ config' = [config EXCEPT !.time_window_seconds = seconds]
    /\ UNCHANGED <<cfgvars, _request_records, _group_records, clock, pc, last, log,
                   nreq, nadmin>>

\* windows the host may write
Windows == 1..(MaxCount + 1)

\* stored configurations with counts below 1: a default per-user cap of 0, a
\* per-actor cap of 0 for a, a per-user cap of -1 in group g
StoreConfigs ==
    {Config(TRUE, TRUE, mr, 2, 1, <<>>, gl, <<>>, ul) :
        mr \in {0, 1},
        gl \in {<<>>, <<Str(<<"g">>, -1)>>},
        ul \in {<<>>, <<Str(<<"a">>, 0)>>}}

InitStore == InitWith(StoreConfigs)

NextStore ==
    \/ Next
    \/ \E seconds \in Windows : config_edited(seconds)

SpecStore == InitStore /\ [][NextStore]_vars

(***************************************************************************)
(* Loading and saving the limit lists: the plugin constructed over a       *)
(* user_limits list of arbitrary entries, then one /rl command that reads  *)
(* or writes the three lists, with identifiers as free as a command        *)
(* argument is (any text without blanks).                                  *)
(***************************************************************************)
MaxList == 3

\* entries of a stored list: well formed, without ":", with a count that is
\* no integer, with a second ":", with blanks, with an empty side, negative
LoadEntries ==
    {<<"a", ":", "1">>, <<"a", ":", "2">>, <<"b", ":", "1">>,
     <<"a">>, <<"a", ":", "x">>, <<"a", ":", "b", ":", "1">>,
     <<" ", "a", " ", ":", " ", "1", " ">>, <<":", "1">>, <<"a", ":">>,
     <<"b", ":", "-", "1">>}

LoadLists == UNION {[1..n -> LoadEntries] : n \in 0..MaxList}

LoadConfigs == {Config(TRUE, TRUE, 1, 2, 0, <<>>, <<>>, <<>>, raw) : raw \in LoadLists}

\* identifiers given to the commands
SetterIds == {<<"a">>, <<"g">>, <<"a", ":", "b">>}

InitLoad == InitWith(LoadConfigs)

NextLoad ==
    \/ rl_status
    \/ rl_group_list
    \/ rl_gtotal_list
    \/ rl_user_list
    \/ \E id \in SetterIds, n \in Counts : rl_group_set(id, n)
    \/ \E id \in SetterIds : rl_group_del(id)
    \/ \E id \in SetterIds, n \in Counts : rl_gtotal_set(id, n)
    \/ \E id \in SetterIds : rl_gtotal_del(id)
    \/ \E id \in SetterIds, n \in Counts : rl_user_set(id, n)
    \/ \E id \in SetterIds : rl_user_del(id)

SpecLoad == InitLoad /\ [][NextLoad]_vars

(***************************************************************************)
(* RateLimiter (test_rate_limit.py 12-72), the class the tests run.  Its   *)
(* limit maps, whitelist, default limit and window are the plugin's; its   *)
(* two record tables are the arguments user_records and group_records.     *)
(***************************************************************************)
resolve_max_requests(user_id, group_id) ==
    IF Has(user_limits, user_id) THEN Get(user_limits, user_id)
    ELSE IF Truthy(group_id) /\ Has(group_limits, group_id) THEN Get(group_limits, group_id)
    ELSE max_requests

\* error stands for the IndexError of records[0] on an empty deque
_sw_check(records, max_req, window, now) ==
    LET window_start == now - window
        left == PopExpired(records, window_start)
    IN  IF Len(left) >= max_req
        THEN IF left = <<>>
             THEN [allowed |-> FALSE, cooldown |-> 0, records |-> left, error |-> TRUE]
             ELSE [allowed |-> FALSE, cooldown |-> Round1(Head(left) - window_start),
                   records |-> left, error |-> FALSE]
        ELSE [allowed |-> TRUE, cooldown |-> 0, records |-> left, error |-> FALSE]

\* request(user_id, group_id, now): what it returns, and what it leaves in
\* _user_records[user_id] (urec) and _group_records[group_id] (grec)
request(user_records, group_records, user_id, group_id, now) ==
    LET urec0 == user_records[user_id]
        grec0 == IF group_id \in DOMAIN group_records THEN group_records[group_id] ELSE <<>>
        max_req == resolve_max_requests(user_id, group_id)
        u == _sw_check(urec0, max_req, time_window, now)
        limited == Truthy(group_id) /\ Has(group_total_limits, group_id)
        g_max == IF limited THEN Get(group_total_limits, group_id) ELSE 0
        g == _sw_check(grec0, g_max, time_window, now)
        out(allowed, cooldown, reason, ur, gr) ==
            [allowed |-> allowed, cooldown |-> cooldown, reason |-> reason,
             urec |-> ur, grec |-> gr]
    IN  IF InList(user_id, whitelist)
        THEN out(TRUE, 0, "whitelist", urec0, grec0)
        ELSE IF u.error
        THEN out(FALSE, 0, "error", u.records, grec0)
        ELSE IF ~u.allowed
        THEN out(FALSE, u.cooldown, "user_limit", u.records, grec0)
        ELSE IF limited /\ g.error
        THEN out(FALSE, 0, "error", u.records, g.records)
        ELSE IF limited /\ ~g.allowed
        THEN out(FALSE, g.cooldown, "group_total", u.records, g.records)
        ELSE out(TRUE, 0, "ok", Append(u.records, now),
                 IF limited THEN Append(g.records, now) ELSE grec0)

(***************************************************************************)
(* Properties.  In SpecFixed the log holds every LLM request since         *)
(* construction, oldest first.                                             *)
(***************************************************************************)
\* the requests of actor a, and those made in group g
Of(a) == {i \in DOMAIN log : log[i].id = a}

In(g) == {i \in DOMAIN log : log[i].group = g}

Admitted == {i \in DOMAIN log : log[i].reason = "ok"}

\* an aggregate cap applies to the requests made in g
GroupCapApplies(g) ==
    /\ enable_group_total_limit
    /\ g # NoGroup
    /\ IF Has(group_total_limits, g) THEN Get(group_total_limits, g) > 0
       ELSE default_group_total > 0

\* the actor is in the bypass set
Bypassed(a) == \E k \in DOMAIN whitelist : whitelist[k] = a

\* the actor is subject to the user-level check
UserLimited(a) == enable_user_limit /\ ~Bypassed(a)

\* the requests of I are all less than one window apart
WithinOneWindow(I) == \A i, j \in I : log[j].now - log[i].now < time_window

\* C1: Capacity boundary.  For an actor whose requests all pass through the
\* user-level check under the same cap N >= 1, with no aggregate cap
\* applying to any of them and all less than one window apart (equal
\* instants included), exactly the first N are admitted and every later
\* one is denied with reason user_limit.
C1_CapacityBoundary ==
    \A a \in Actors :
        LET I == Of(a)
            N == log[CHOOSE i \in I : TRUE].max
        IN  (/\ I # {}
             /\ UserLimited(a)
             /\ N >= 1
             /\ \A i \in I : log[i].max = N /\ ~GroupCapApplies(log[i].group)
             /\ WithinOneWindow(I))
            => \A i \in I :
                  log[i].reason =
                      IF Cardinality({j \in I : j <= i}) <= N THEN "ok" ELSE "user_limit"

\* C1 witness: an actor under cap 2 made three requests within one window,
\* two at the same instant; the third was denied.
C1_Witness ==
    \E a \in Actors :
        /\ UserLimited(a)
        /\ Cardinality(Of(a)) = 3
        /\ \A i \in Of(a) : log[i].max = 2 /\ ~GroupCapApplies(log[i].group)
        /\ WithinOneWindow(Of(a))
        /\ \E i, j \in Of(a) : i < j /\ log[i].now = log[j].now /\ log[j].reason = "ok"
        /\ \E i \in Of(a) : log[i].reason = "user_limit"

\* the admitted requests of the set I that are less than one window old when
\* request i is decided, request i and the later ones left out
CountedAt(i, I) ==
    Cardinality({j \in Admitted \cap I : j < i /\ log[i].now - log[j].now < time_window})

\* the admitted requests of the set I in the window that ends at request i
InWindowOf(i, I) ==
    Cardinality({j \in Admitted \cap I :
                    log[i].now - time_window < log[j].now /\ log[j].now <= log[i].now})

Denied == {i \in DOMAIN log : log[i].reason \in {"user_limit", "group_total"}}

\* C2: Atomic check-then-record under concurrency.  With the tasks of
\* on_llm_request interleaved at their awaits and a fixed configuration: a
\* request admitted under user cap N is, with the admitted requests of its
\* actor before it in the same window, at most the N-th; the admitted
\* requests of a group in any one window are at most its aggregate cap; and
\* only tasks of denied requests are ever suspended.
C2_NoOverAdmission ==
    /\ \A i \in Admitted :
          log[i].ustage => CountedAt(i, Of(log[i].id)) + 1 <= log[i].max
    /\ \A i \in Admitted :
          log[i].gstage => InWindowOf(i, In(log[i].group)) <= log[i].gmax
    /\ Cardinality({t \in Tasks : pc[t] = "send"}) <= Cardinality(Denied)

\* C2 witness: while the task of a denied request is still suspended in
\* event.send, a later request of the same actor takes the last slot of its
\* user cap and of its group's aggregate cap.
C2_Witness ==
    /\ \E t \in Tasks : pc[t] = "send"
    /\ \E i, k \in DOMAIN log :
          /\ i < k /\ k = Len(log)
          /\ log[i].id = log[k].id
          /\ log[i].reason = "user_limit" /\ log[k].reason = "ok"
          /\ log[k].ustage /\ CountedAt(k, Of(log[k].id)) + 1 = log[k].max
          /\ log[k].gstage /\ InWindowOf(k, In(log[k].group)) = log[k].gmax

\* C6: Window expiry.  An event recorded at t counts against its key at every
\* check time t' with t <= t' < t + window and at no later one: a user-level
\* check denies exactly when the actor's admitted requests less than one
\* window old reach the cap, and an aggregate check denies exactly when the
\* group's do.
C6_WindowExpiry ==
    \A i \in DOMAIN log :
        /\ log[i].ustage =>
              (log[i].reason = "user_limit" <=> CountedAt(i, Of(log[i].id)) >= log[i].max)
        /\ log[i].gstage =>
              (log[i].reason = "group_total" <=> CountedAt(i, In(log[i].group)) >= log[i].gmax)

\* C6 witness: an actor whose counter was full (a denial) is admitted again by
\* the check made exactly one window after its oldest event.
C6_Witness ==
    \E i, j, k \in DOMAIN log :
        /\ i < j /\ j < k
        /\ log[i].id = log[j].id /\ log[j].id = log[k].id
        /\ log[i].reason = "ok" /\ log[j].reason = "user_limit" /\ log[k].reason = "ok"
        /\ log[j].now < log[i].now + time_window
        /\ log[k].now = log[i].now + time_window

\* the aggregate cap of group g
GroupCap(g) ==
    IF Has(group_total_limits, g) THEN Get(group_total_limits, g) ELSE default_group_total

\* C8 as stated: in a group under an aggregate cap M >= 1 the admitted
\* requests of one window never exceed M, and once M are admitted a request
\* in the group from any actor (read here as: any actor that is not bypassed)
\* is denied with reason group_total.
C8_AnyActorDeniedGroupTotal ==
    \A g \in GroupIds :
        GroupCapApplies(g) =>
            /\ \A i \in Admitted \cap In(g) : InWindowOf(i, In(g)) <= GroupCap(g)
            /\ \A i \in In(g) :
                  (CountedAt(i, In(g)) >= GroupCap(g) /\ ~Bypassed(log[i].id)) =>
                      log[i].reason = "group_total"

\* C8 amended: in a group under an aggregate cap M >= 1 the admitted requests
\* of one window never exceed M, and once M are admitted a request in the
\* group from any non-bypassed actor is denied: with reason group_total when
\* it passes the user-level check (as an actor with an empty history and a
\* user cap >= 1 does) or user limiting is disabled, with reason user_limit
\* when the user-level check denies it first.
C8_GroupAggregateCapacity ==
    \A g \in GroupIds :
        GroupCapApplies(g) =>
            /\ \A i \in Admitted \cap In(g) : InWindowOf(i, In(g)) <= GroupCap(g)
            /\ \A i \in In(g) :
                  (CountedAt(i, In(g)) >= GroupCap(g) /\ ~Bypassed(log[i].id)) =>
                      log[i].reason =
                          IF enable_user_limit /\ CountedAt(i, Of(log[i].id)) >= log[i].max
                          THEN "user_limit" ELSE "group_total"

\* C8 witness: a group is at its aggregate cap and the first request of another
\* actor, whose own history is empty, is denied with reason group_total.
C8_Witness ==
    \E i \in DOMAIN log :
        /\ log[i].reason = "group_total"
        /\ GroupCapApplies(log[i].group)
        /\ CountedAt(i, In(log[i].group)) = GroupCap(log[i].group)
        /\ \A j \in Of(log[i].id) : j >= i
        /\ log[i].ustage

(***************************************************************************)
(* Properties of one step.  A step that handles an LLM request raises nreq *)
(* and leaves its outcome in last.                                         *)
(***************************************************************************)
RequestStep == nreq' = nreq + 1

\* s is what is left of r after dropping leading elements
IsSuffix(s, r) ==
    Len(s) <= Len(r) /\ s = SubSeq(r, Len(r) - Len(s) + 1, Len(r))

LaterTimes == clock..MaxTime

\* C3: Group-stage denial consumes no user slot.  A request denied with reason
\* group_total appends no timestamp to its actor's deque nor to its group's
\* (each is left as it was, less expired leading timestamps), and every
\* request made afterwards, by any actor in any group or in private, is
\* decided as if the denied request had never been made.
C3_GroupDenialConsumesNoSlot ==
    [][(RequestStep /\ last'.reason = "group_total") =>
          /\ IsSuffix(_request_records'[last'.id], _request_records[last'.id])
          /\ IsSuffix(_group_records'[last'.group], _group_records[last'.group])
          /\ \A a \in Actors, g \in EventGroups, t \in LaterTimes :
                Admit(a, g, t)' = Admit(a, g, t)]_vars

\* C3 witness: an actor with a free user slot was denied by the aggregate check
\* of a group and is then admitted in private.
C3_Witness ==
    \E i, k \in DOMAIN log :
        /\ i < k
        /\ log[i].id = log[k].id
        /\ log[i].reason = "group_total" /\ log[i].ustage
        /\ log[k].reason = "ok" /\ log[k].group = NoGroup
        /\ log[k].now - log[i].now < time_window
        /\ CountedAt(k, Of(log[k].id)) + 1 = log[k].max

\* C4: User-stage denial never touches the group counter.  A request denied
\* with reason user_limit leaves every per-group deque exactly as it was,
\* neither pruned nor appended to.
C4_UserDenialLeavesGroupCounter ==
    [][(RequestStep /\ last'.reason = "user_limit") =>
          _group_records' = _group_records]_vars

\* C4 witness: a request is denied at the user stage in a group under an
\* aggregate cap whose deque holds a timestamp that has expired.
C4_Witness ==
    /\ last.reason = "user_limit"
    /\ GroupCapApplies(last.group)
    /\ _group_records[last.group] # <<>>
    /\ Head(_group_records[last.group]) <= last.now - time_window

\* C5: Bypass precedence.  Every request of an actor in the bypass set is
\* admitted with reason whitelist, whatever the limits, the group and the
\* history are, suspends no task and changes no per-actor and no per-group
\* deque.
C5_BypassPrecedence ==
    [][(RequestStep /\ Bypassed(last'.id)) =>
          /\ last'.reason = "whitelist"
          /\ pc' = pc
          /\ _request_records' = _request_records
          /\ _group_records' = _group_records]_vars

\* C5 witness: a bypassed actor whose own deque is not empty is admitted in a
\* group whose aggregate deque is not empty.
C5_Witness ==
    /\ last.op = "on_llm_request" /\ last.reason = "whitelist"
    /\ _request_records[last.id] # <<>>
    /\ last.group # NoGroup
    /\ _group_records[last.group] # <<>>

\* the value a limit dict gives to a key
HasLimit(d, k) == \E i \in DOMAIN d : d[i][1] = k

LimitOf(d, k) == d[CHOOSE i \in DOMAIN d : d[i][1] = k][2]

\* C7: Limit priority.  The cap used by the user-level check is the per-actor
\* limit if the actor has one; otherwise the per-user limit of the request's
\* group if a group is present and has one; otherwise the global default.
\* Handling a request changes no configuration, and a request that gets no
\* further than the resolved cap and its check adds to no deque; the cap of an actor with a
\* per-actor limit is the same after any step that leaves the per-actor limits
\* alone (whatever happens to the group limits and the default), and the cap
\* of an actor without one in a group with a per-user limit is the same after
\* any step that leaves both dicts alone (whatever happens to the default).
C7_LimitPriority ==
    [][/\ (RequestStep /\ last'.ustage) =>
              last'.max =
                  IF HasLimit(user_limits, last'.id) THEN LimitOf(user_limits, last'.id)
                  ELSE IF last'.group # NoGroup /\ HasLimit(group_limits, last'.group)
                  THEN LimitOf(group_limits, last'.group)
                  ELSE max_requests
       /\ RequestStep => UNCHANGED <<config, cfgvars>>
       /\ (RequestStep /\ last'.reason = "user_limit") =>
              /\ \A a \in Actors : IsSuffix(_request_records'[a], _request_records[a])
              /\ _group_records' = _group_records
       /\ user_limits' = user_limits =>
              \A a \in Actors, g \in EventGroups :
                  HasLimit(user_limits, a) =>
                      /\ _resolve_max_requests(a, g) = LimitOf(user_limits, a)
                      /\ _resolve_max_requests(a, g)' = _resolve_max_requests(a, g)
       /\ (user_limits' = user_limits /\ group_limits' = group_limits) =>
              \A a \in Actors, g \in GroupIds :
                  (~HasLimit(user_limits, a) /\ HasLimit(group_limits, g)) =>
                      /\ _resolve_max_requests(a, g) = LimitOf(group_limits, g)
                      /\ _resolve_max_requests(a, g)' = _resolve_max_requests(a, g)]_vars

\* C7 witness: after a command changed the per-user limit of a group, a request
\* in that group by an actor with a per-actor limit is decided under the
\* per-actor limit, which differs from the group's limit and from the default.
C7_Witness ==
    /\ last.op = "on_llm_request" /\ last.ustage
    /\ nadmin = 1
    /\ config.group_limits # <<Str(<<"g">>, 3)>>
    /\ HasLimit(user_limits, last.id)
    /\ last.group # NoGroup /\ HasLimit(group_limits, last.group)
    /\ LimitOf(user_limits, last.id) # LimitOf(group_limits, last.group)
    /\ LimitOf(user_limits, last.id) # max_requests
    /\ last.max = LimitOf(user_limits, last.id)

\* C9: Group-stage gating.  The aggregate check and the group record step apply
\* to a request only if group-total limiting is enabled, the request carries a
\* group and the aggregate cap of that group is > 0; a request for which one of
\* the three fails is not denied with reason group_total and changes no
\* per-group deque.
C9_GroupStageGating ==
    [][RequestStep =>
          LET g == last'.group
              gate == enable_group_total_limit /\ g # NoGroup /\ GroupCap(g) > 0
          IN  /\ last'.gstage => gate
              /\ ~gate => /\ last'.reason # "group_total"
                          /\ _group_records' = _group_records]_vars

\* C9 witness: with group-total limiting enabled and a positive default cap, a
\* request in a group whose own stored cap is 0 skips the aggregate check: its
\* actor has two requests on record and the group's deque is still empty.
C9_Witness ==
    /\ last.op = "on_llm_request" /\ last.reason = "ok" /\ ~last.gstage
    /\ enable_group_total_limit /\ default_group_total > 0
    /\ last.group # NoGroup
    /\ HasLimit(group_total_limits, last.group)
    /\ LimitOf(group_total_limits, last.group) = 0
    /\ Len(_request_records[last.id]) = 2
    /\ _group_records[last.group] = <<>>

\* the aggregate check of group g at time t
GroupCheck(g, t) ==
    _sliding_window_check(_group_records[g], _resolve_group_total(g), time_window, t)

\* C10: Isolation.  A request by actor a in group g (or in private) changes no
\* per-actor deque but a's and no per-group deque but g's; every later request
\* of another actor in a group without an active aggregate cap (or in private)
\* is decided as before, and so is every later aggregate check of another
\* group.
C10_Isolation ==
    [][RequestStep =>
          /\ \A b \in Actors \ {last'.id} : _request_records'[b] = _request_records[b]
          /\ \A h \in GroupIds \ {last'.group} : _group_records'[h] = _group_records[h]
          /\ \A b \in Actors \ {last'.id}, h \in EventGroups, t \in LaterTimes :
                ~GroupCapApplies(h) => Admit(b, h, t)' = Admit(b, h, t)
          /\ \A h \in GroupIds \ {last'.group}, t \in LaterTimes :
                GroupCheck(h, t)' = GroupCheck(h, t)]_vars

\* C10 witness: one actor is at its cap and denied, and another actor, subject
\* to the user-level check as well, is admitted at the same instant.
C10_Witness ==
    \E i, j, k \in DOMAIN log :
        /\ i < j /\ j < k
        /\ log[i].id = log[j].id /\ log[k].id # log[i].id
        /\ log[i].reason = "ok" /\ log[j].reason = "user_limit" /\ log[k].reason = "ok"
        /\ log[k].ustage
        /\ log[j].now = log[k].now

(***************************************************************************)
(* Cooldowns.                                                              *)
(***************************************************************************)
DeniedStep == RequestStep /\ last'.reason \in {"user_limit", "group_total"}

\* the timestamps of a deque that are still inside the window that ends at now
Remaining(records, now) == {records[i] : i \in {j \in DOMAIN records : records[j] > now - time_window}}

Oldest(S) == CHOOSE x \in S : \A y \in S : x <= y

\* C11: Cooldown value.  On every denial, at the user or at the group stage,
\* the reported cooldown is the oldest timestamp the denying deque holds inside
\* the window, less (now - window); it is > 0 and <= window (timestamps being
\* whole seconds, the cooldown in tenths of a second).  With cap 3, window 60
\* and events at 10, 20, 30, a query at 50 reports 20.
C11_CooldownValue ==
    [][/\ _sliding_window_check(<<10, 20, 30>>, 3, 60, 50) =
              [allowed |-> FALSE, cooldown |-> 200, records |-> <<10, 20, 30>>,
               error |-> FALSE]
       /\ DeniedStep =>
              LET before == IF last'.reason = "user_limit"
                            THEN _request_records[last'.id]
                            ELSE _group_records[last'.group]
                  inside == Remaining(before, last'.now)
              IN  /\ inside # {}
                  /\ last'.cooldown = 10 * (Oldest(inside) - (last'.now - time_window))
                  /\ 0 < last'.cooldown
                  /\ last'.cooldown <= 10 * time_window]_vars

\* C11 witness: a denial whose call first pruned an expired timestamp: the
\* actor was admitted at instants 0 and 1 under a cap of 2 and is denied at
\* instant 2 under a cap of 1 with a cooldown of one second.
C11_Witness ==
    /\ Len(log) = 3
    /\ log[1].id = log[3].id /\ log[2].id = log[3].id
    /\ log[1].reason = "ok" /\ log[1].now = 0
    /\ log[2].reason = "ok" /\ log[2].now = 1
    /\ log[3].reason = "user_limit" /\ log[3].now = 2
    /\ time_window = 2
    /\ log[3].cooldown = 10

\* C12: Cooldown makes room.  After a request is denied at time now with
\* cooldown c by a stage, and with no request admitted since, the same check
\* of that stage on the same deque under the same cap allows at time now + c.
C12_CooldownMakesRoom ==
    [][DeniedStep =>
          LET again == last'.now + (last'.cooldown \div 10)
          IN  IF last'.reason = "user_limit"
              THEN _sliding_window_check(_request_records'[last'.id], last'.max,
                                         time_window, again).allowed
              ELSE _sliding_window_check(_group_records'[last'.group], last'.gmax,
                                         time_window, again).allowed]_vars

(***************************************************************************)
(* The /rl commands.  A step that handles a command raises nadmin and      *)
(* leaves the command's name, its identifier argument (id), its count      *)
(* argument (max) and how it ended (reason) in last.                       *)
(***************************************************************************)
AdminStep == nadmin' = nadmin + 1

Done(op) == AdminStep /\ last'.op = op /\ last'.reason = "ok"

\* C14: Clearing a per-actor limit discards history.  After rl_user_del succeeds
\* for an actor that had a per-actor limit, the actor's deque is empty.
C14_UserDelDiscardsHistory ==
    [][Done("rl_user_del") => _request_records'[last'.id] = <<>>]_vars

\* C15: Bypass-set changes discard history.  After rl_whitelist_add succeeds
\* and after rl_whitelist_remove succeeds the actor's deque is empty, and no
\* actor of the bypass set ever has a non-empty deque.
C15_BypassChangeDiscardsHistory ==
    [][/\ (Done("rl_whitelist_add") \/ Done("rl_whitelist_remove")) =>
              _request_records'[last'.id] = <<>>
       /\ \A a \in Actors : Bypassed(a)' => _request_records'[a] = <<>>]_vars

Setters == {"rl_set_rate", "rl_set_window", "rl_user_set", "rl_group_set", "rl_gtotal_set"}

\* C16: Rejected setter changes nothing.  Each of the five setters called with
\* a value < 1 is rejected, and a rejected call leaves the in-memory
\* configuration, the persisted configuration and every deque as they were.
C16_RejectedSetterChangesNothing ==
    [][/\ (AdminStep /\ last'.op \in Setters /\ last'.max < 1) =>
              last'.reason = "rejected"
       /\ (AdminStep /\ last'.reason = "rejected") =>
              /\ last'.op \in Setters /\ last'.max < 1
              /\ UNCHANGED <<config, cfgvars, _request_records, _group_records>>]_vars

\* C16 witness: set_window was rejected while an actor and a group have
\* timestamps on record.
C16_Witness ==
    /\ last.op = "rl_set_window" /\ last.reason = "rejected"
    /\ \E a \in Actors : _request_records[a] # <<>>
    /\ \E g \in GroupIds : _group_records[g] # <<>>

\* a deque of every actor and of every group is empty
NoHistory(requests, groups) ==
    /\ \A a \in Actors : requests[a] = <<>>
    /\ \A g \in GroupIds : groups[g] = <<>>

\* C13: Window change resets everything.  Whenever time_window changes, by
\* rl_set_window or by a reload of the stored configuration, every per-actor
\* and every per-group deque is empty afterwards.
C13_WindowChangeResets ==
    [][time_window' # time_window => NoHistory(_request_records', _group_records')]_vars

\* C17: Positive-limit invariant.  In every reachable state max_requests and
\* every value of user_limits, group_limits and group_total_limits is >= 1,
\* time_window is >= 1 and default_group_total is >= 0.
C17_PositiveLimits ==
    /\ max_requests >= 1
    /\ time_window >= 1
    /\ default_group_total >= 0
    /\ \A i \in DOMAIN user_limits : user_limits[i][2] >= 1
    /\ \A i \in DOMAIN group_limits : group_limits[i][2] >= 1
    /\ \A i \in DOMAIN group_total_limits : group_total_limits[i][2] >= 1

\* C18: An empty sequence never denies and no decision fails.  No request ends
\* in an error, and a request is denied by a stage only if the deque of that
\* stage holds a timestamp inside the window.
C18_EmptyNeverDenies ==
    [][RequestStep =>
          /\ last'.reason # "error"
          /\ last'.reason = "user_limit" =>
                Remaining(_request_records[last'.id], last'.now) # {}
          /\ last'.reason = "group_total" =>
                Remaining(_group_records[last'.group], last'.now) # {}]_vars

(***************************************************************************)
(* The persisted lists.                                                    *)
(***************************************************************************)
\* C19: Persistence round trip.  Parsing the stored form of each limit dict
\* gives back the dict, in every state: a reload never changes a limit that a
\* command has set or cleared.
C19_RoundTrip ==
    /\ _parse_limit_list(config.user_limits) = user_limits
    /\ _parse_limit_list(config.group_limits) = group_limits
    /\ _parse_limit_list(config.group_total_limits) = group_total_limits

\* the first ":" of an entry
Colon(e) == CHOOSE k \in DOMAIN e : e[k] = ":" /\ \A j \in 1..(k - 1) : e[j] # ":"

\* an entry "<id>:<count>" whose count is an integer
WellFormed(e) ==
    /\ \E k \in DOMAIN e : e[k] = ":"
    /\ ParseInt(SubSeq(e, Colon(e) + 1, Len(e))).ok

IdOf(e) == Strip(SubSeq(e, 1, Colon(e) - 1))

CountOf(e) == ParseInt(SubSeq(e, Colon(e) + 1, Len(e))).val

\* d is the mapping given by the well-formed entries of raw, a later entry
\* for an identifier replacing an earlier one
IsMappingOf(d, raw) ==
    LET good == {i \in DOMAIN raw : WellFormed(raw[i])}
    IN  /\ \A i, j \in DOMAIN d : d[i][1] = d[j][1] => i = j
        /\ \A i \in DOMAIN d : \E k \in good : IdOf(raw[k]) = d[i][1]
        /\ \A k \in good :
              \E i \in DOMAIN d :
                  /\ d[i][1] = IdOf(raw[k])
                  /\ d[i][2] = CountOf(raw[CHOOSE m \in good :
                                    /\ IdOf(raw[m]) = IdOf(raw[k])
                                    /\ \A n \in good : IdOf(raw[n]) = IdOf(raw[k]) => n <= m])

\* C20: Malformed persisted entries are skipped, not fatal.  What the startup
\* load and every reload leave in the three dicts is the mapping given by the
\* well-formed entries of the stored lists (split at the first ":"), and is
\* what the load of the list without its malformed entries gives.
C20_MalformedEntriesSkipped ==
    (last.op \in {"none", "rl_status", "rl_group_list", "rl_gtotal_list", "rl_user_list"}) =>
        /\ IsMappingOf(user_limits, config.user_limits)
        /\ IsMappingOf(group_limits, config.group_limits)
        /\ IsMappingOf(group_total_limits, config.group_total_limits)
        /\ user_limits = _parse_limit_list(SelectSeq(config.user_limits, WellFormed))

\* C20 witness: a reload of a list holding a well-formed entry, one without a
\* count that is an integer, one with a second ":" left the two limits of the
\* well-formed entries and nothing else.
C20_Witness ==
    /\ last.op = "rl_user_list"
    /\ \E i, j, k \in DOMAIN config.user_limits :
          /\ i < j /\ j < k
          /\ WellFormed(config.user_limits[i])
          /\ ~WellFormed(config.user_limits[j])
          /\ config.user_limits[j] = <<"a", ":", "b", ":", "1">>
          /\ WellFormed(config.user_limits[k])
          /\ IdOf(config.user_limits[i]) # IdOf(config.user_limits[k])
    /\ Len(user_limits) = 2

(***************************************************************************)
(* Tasks, stages and the order of the deques.                              *)
(***************************************************************************)
\* C21: No reconfiguration inside a decision.  With the hook's tasks and the
\* /rl commands interleaved at their suspension points: the outcome of a
\* request and what it leaves in its two deques are those of resolve, user
\* check, group check and record computed over the one configuration and the
\* one pair of record tables of the state the request started in, and the
\* request changes no configuration; a command starts and ends in one step,
\* leaving every suspended task where it was; and a task resumed after its
\* send, like the passing of time, changes no configuration and no deque.
C21_NoReconfigurationInsideDecision ==
    [][/\ RequestStep =>
              /\ UNCHANGED <<config, cfgvars>>
              /\ LET a == last'.id
                     g == last'.group
                     d == Admit(a, g, clock)
                 IN  /\ last' = Decision(a, g, clock, d)
                     /\ _request_records'[a] = d.urec
                     /\ g # NoGroup => _group_records'[g] = d.grec
                     /\ \A b \in Actors \ {a} : _request_records'[b] = _request_records[b]
                     /\ \A h \in GroupIds \ {g} : _group_records'[h] = _group_records[h]
       /\ AdminStep => (pc' = pc /\ clock' = clock)
       /\ (~RequestStep /\ ~AdminStep) =>
              UNCHANGED <<config, cfgvars, _request_records, _group_records>>]_vars

\* C21 witness: set_window took effect, and emptied the record tables, while a
\* denied request was suspended in its send.
C21_Witness ==
    /\ last.op = "rl_set_window" /\ last.reason = "ok"
    /\ \E t \in Tasks : pc[t] = "send"
    /\ nreq = 2

\* the timestamps of a deque inside the window that ends at now
InsideCount(records, now) ==
    Cardinality({i \in DOMAIN records : records[i] > now - time_window})

\* the user-level check applies to the request and finds the actor at its cap
UserFull(a, g, now) ==
    /\ UserLimited(a)
    /\ InsideCount(_request_records[a], now) >= _resolve_max_requests(a, g)

\* the aggregate check applies to the request and finds the group at its cap
GroupFull(g, now) ==
    /\ GroupCapApplies(g)
    /\ InsideCount(_group_records[g], now) >= GroupCap(g)

\* C22: Strict stage order.  A request of a bypassed actor stops at the bypass
\* test.  Otherwise a request whose actor is at its user cap is denied with
\* reason user_limit, also when its group is at its total cap, and the
\* aggregate check does not run; reason group_total is returned only when the
\* user-level check passed or user limiting is disabled; and a timestamp is
\* recorded only when every applicable check has passed, in which case the
\* request is admitted and recorded in each applicable deque.
C22_StrictStageOrder ==
    [][RequestStep =>
          LET a == last'.id
              g == last'.group
              r == last'.reason
              uf == UserFull(a, g, clock)
              gf == GroupFull(g, clock)
          IN  /\ Bypassed(a) => (r = "whitelist" /\ ~last'.ustage /\ ~last'.gstage)
              /\ (~Bypassed(a) /\ uf) =>
                    (r = "user_limit" /\ ~last'.gstage /\ _group_records' = _group_records)
              /\ r = "group_total" => (~Bypassed(a) /\ ~uf /\ gf)
              /\ (~Bypassed(a) /\ ~uf /\ gf) => r = "group_total"
              /\ r = "ok" <=> (~Bypassed(a) /\ ~uf /\ ~gf)
              /\ r = "ok" =>
                    /\ UserLimited(a) =>
                          _request_records'[a] = Append(PopExpired(_request_records[a],
                                                        clock - time_window), clock)
                    /\ GroupCapApplies(g) =>
                          _group_records'[g] = Append(PopExpired(_group_records[g],
                                                      clock - time_window), clock)
              /\ r # "ok" =>
                    /\ \A b \in Actors : IsSuffix(_request_records'[b], _request_records[b])
                    /\ \A h \in GroupIds : IsSuffix(_group_records'[h], _group_records[h])]_vars

\* C22 witness: a request whose actor is at its user cap and whose group is at
\* its total cap is denied with reason user_limit.
C22_Witness ==
    /\ last.reason = "user_limit"
    /\ UserFull(last.id, last.group, last.now)
    /\ GroupFull(last.group, last.now)
    /\ \E i \in DOMAIN log : log[i].id # last.id /\ log[i].reason = "ok"

Sorted(records) == \A i, j \in DOMAIN records : i <= j => records[i] <= records[j]

\* C23: Ordered history.  After every step each per-actor and each per-group
\* deque is non-decreasing, oldest timestamp first (the clock never runs
\* backwards), also with the requests run as interleaved tasks; and a deque
\* that a check has pruned holds no timestamp <= now - window.
C23_OrderedHistory ==
    [][/\ \A a \in Actors : Sorted(_request_records'[a])
       /\ \A g \in GroupIds : Sorted(_group_records'[g])
       /\ (RequestStep /\ last'.ustage) =>
              \A i \in DOMAIN _request_records'[last'.id] :
                  _request_records'[last'.id][i] > clock - time_window
       /\ (RequestStep /\ last'.gstage) =>
              \A i \in DOMAIN _group_records'[last'.group] :
                  _group_records'[last'.group][i] > clock - time_window]_vars

\* C23 witness: a deque that held an expired timestamp followed by a live one
\* was pruned to the live one and a newer timestamp appended to it.
C23_Witness ==
    /\ Len(log) = 3
    /\ log[1].id = log[3].id /\ log[2].id = log[3].id
    /\ log[1].reason = "ok" /\ log[2].reason = "ok" /\ log[3].reason = "ok"
    /\ log[1].now < log[2].now /\ log[2].now < log[3].now
    /\ log[3].ustage
    /\ _request_records[log[3].id] = <<log[2].now, log[3].now>>

(***************************************************************************)
(* The class under test and the plugin.                                    *)
(***************************************************************************)
\* C24: The tested model is the plugin.  With both toggles enabled and a
\* default group total of 0, and the two holding the same record tables,
\* RateLimiter.request and on_llm_request give every request the same
\* outcome, the same denying stage and cooldown, and leave the same per-actor
\* and per-group deques (so the two stay in step over every sequence of
\* requests, both starting with empty tables).
C24_RateLimiterIsThePlugin ==
    [][(/\ RequestStep
        /\ enable_user_limit /\ enable_group_total_limit
        /\ default_group_total = 0) =>
          LET a == last'.id
              g == last'.group
              r == request(_request_records, _group_records, a, g, clock)
          IN  /\ r.reason = last'.reason
              /\ r.allowed = (last'.reason \in {"ok", "whitelist"})
              /\ r.cooldown = last'.cooldown
              /\ r.urec = _request_records'[a]
              /\ g # NoGroup => r.grec = _group_records'[g]]_vars

(***************************************************************************)
(* Effects left implicit.                                                  *)
(***************************************************************************)
\* a deque holding k timestamps, all equal to t
Burst(k, t) == [i \in 1..k |-> t]

\* C25: Setting a per-actor limit resets that actor's history.  After
\* rl_user_set(a, n) succeeds with n >= 1, the deque of a is empty and n is
\* the cap of a in every group and in private, so the user-level check
\* admits the next n requests of a even if they all come at once; the deques
\* of all other actors and all per-group deques are unchanged.
C25_UserSetResetsHistory ==
    [][\A a \in Actors, n \in Counts :
          (Done("rl_user_set") /\ last'.id = a /\ last'.max = n) =>
              /\ n >= 1
              /\ _request_records'[a] = <<>>
              /\ \A b \in Actors \ {a} : _request_records'[b] = _request_records[b]
              /\ _group_records' = _group_records
              /\ \A g \in EventGroups :
                    /\ _resolve_max_requests(a, g)' = n
                    /\ \A t \in LaterTimes : Admit(a, g, t)'.reason # "user_limit"
              /\ \A k \in 0..(n - 1), t \in LaterTimes :
                    _sliding_window_check(Burst(k, t), n, time_window', t).allowed]_vars

\* C25 witness: actor a, at the default cap of 1 with a request admitted in a
\* group, was given a per-actor limit of 2: its deque is empty and the group's
\* deque still holds the timestamp of its request.
C25_Witness ==
    /\ last.op = "rl_user_set" /\ last.reason = "ok" /\ last.max = 2
    /\ enable_user_limit /\ whitelist = <<>> /\ group_limits = <<>>
    /\ max_requests = 1
    /\ user_limits = <<<<last.id, 2>>>>
    /\ \A b \in Actors : _request_records[b] = <<>>
    /\ \E g \in GroupIds :
          /\ _group_records[g] # <<>>
          /\ Head(_group_records[g]) > clock - time_window

\* the instants at which a request may be repeated
RetryTimes == clock..(MaxTime + time_window)

\* C26: Denied requests are free.  Under a fixed configuration a denied
\* request appends no timestamp to any deque (each is left as it was, less
\* expired leading timestamps), and for every actor, every group or private
\* chat and every later instant, a request is admitted at that instant after
\* the denied request exactly if it would have been without it.
C26_DeniedRequestsAreFree ==
    [][DeniedStep =>
          /\ \A b \in Actors : IsSuffix(_request_records'[b], _request_records[b])
          /\ \A h \in GroupIds : IsSuffix(_group_records'[h], _group_records[h])
          /\ \A b \in Actors, h \in EventGroups, t \in RetryTimes :
                (Admit(b, h, t).reason = "ok")' = (Admit(b, h, t).reason = "ok")]_vars

\* C26 witness: an actor admitted at instant 0 under a cap of 1 retried and
\* was denied at instant 1, and is admitted at instant 2, when the window of
\* its first request has ended.
C26_Witness ==
    /\ Len(log) = 3
    /\ log[1].id = log[2].id /\ log[2].id = log[3].id
    /\ log[1].group = log[2].group /\ log[2].group = log[3].group
    /\ log[1].reason = "ok" /\ log[1].now = 0
    /\ log[2].reason = "user_limit" /\ log[2].now = 1
    /\ log[3].reason = "ok" /\ log[3].now = 2
    /\ log[3].max = 1 /\ time_window = 2

====
